---- MODULE Spec2Model ----
(***************************************************************************)
(* Model of src/src/main.cpp: one Arduino sketch that polls an MPU6050     *)
(* gyroscope over I2C, integrates the yaw angle, and decodes the 9-byte    *)
(* frames of a TFmini Plus rangefinder from a SoftwareSerial byte stream.  *)
(*                                                                         *)
(* Units.  Times are integer milliseconds (millis()).  The sketch divides  *)
(* the raw gyro word by 32.8; raw/32.8 = raw*5/164, so angular rates are   *)
(* kept as integers in units of 1/164 deg/s (RateUnit), and angles, being  *)
(* rate * milliseconds / 1000, in units of 1/164000 degree (DegUnit).      *)
(* The arithmetic is exact where the sketch uses 32-bit floats.            *)
(*                                                                         *)
(* The accelerometer half of readMPU6050 (roll, pitch) writes variables    *)
(* nothing else reads and is left out.                                     *)
(***************************************************************************)
EXTENDS Integers, Sequences, FiniteSets

\* ---------------------------------------------------------------- constants
HEADER == 89
Ceiling == 1200
CalibN == 200
FrameLen == 9
RateUnit == 164
DegUnit == RateUnit * 1000

\* ------------------------------------------------------------------- bounds
MaxStream == 9
MaxClock == 1540

\* Byte values the rangefinder line delivers, besides the byte that closes a
\* frame (Closing): the header value and a small one, so that the distance
\* word is below the ceiling (1 in the high byte) or above it (89 there).
ByteVals == {89, 1}

\* Payload bytes of the well-formed frame of SpecFramed.  With 174 the sum
\* 89 + 89 - 1 + 1 - 1 - 1 - 1 - 1 of a frame cut short by five empty reads
\* has the low byte 174.
PayloadVals == {1, 174}

\* Raw gyro words (int16) seen in the loop and while calibrating at rest.
GyroSamples == {-3280, 0, 13120}
CalibSamples == {0, 328}
\* Duration of setup(): two delay(20) plus 400 I2C transactions.
StartupMillis == {40, 540}
ClockSteps == {500}
\* Inputs of the specification that studies the rangefinder only.
GyroAtRest == {0}
CalibAtRest == {0}
StartupShort == {40}

VARIABLES
    stream,       \* every byte the SoftwareSerial receiver has buffered so far
    taken,        \* how many of them Serial1.read() has removed
    pc,           \* position of the sketch
    i, uart, check, dist, strength,                       \* LiDAR globals
    out,          \* lines printed on Serial
    accepted,     \* decoded dist of every packet that passed the checksum test
    frameReady,   \* Serial1.available() >= 9 when the iteration tested it
    start,        \* value of taken when the iteration tested available()
    exit,         \* branch through which the last loop() iteration left
    clock,        \* millis()
    currentTime, previousTime, elapsedTime,               \* MPU globals
    GyroZ, GyroErrorZ, gyroAngleZ, yaw,
    setupEnd      \* millis() when setup() returned

lidarVars == <<stream, taken, i, uart, check, dist, strength, out, accepted,
               frameReady, start>>
mpuVars == <<currentTime, previousTime, elapsedTime, GyroZ, GyroErrorZ,
             gyroAngleZ, yaw>>
vars == <<stream, taken, pc, i, uart, check, dist, strength, out, accepted,
          frameReady, start, exit, clock, currentTime, previousTime,
          elapsedTime, GyroZ, GyroErrorZ, gyroAngleZ, yaw, setupEnd>>

\* ------------------------------------------------------------ pure helpers
\* Serial1.available(): bytes buffered and not yet read.
SerialAvailable == Len(stream) - taken

\* Serial1.read(): the oldest buffered byte, or -1 when the buffer is empty.
SerialReadValue == IF taken < Len(stream) THEN stream[taken + 1] ELSE -1

SerialReadTaken == IF taken < Len(stream) THEN taken + 1 ELSE taken

\* check = uart[0] + ... + uart[7]
CheckSum(u) == u[0] + u[1] + u[2] + u[3] + u[4] + u[5] + u[6] + u[7]

\* x & 0xff on a two's-complement int
Mask8(x) == x % 256

ChecksumOkShort(u) == u[8] = Mask8(CheckSum(u) - u[7])

\* uart[8] == (check & 0xff)
ChecksumOk(u) == u[8] = Mask8(CheckSum(u))

WordSwapped(u, lo, hi) == u[lo] * 256 + u[hi]

\* uart[lo] + uart[hi] * 256, before it is stored in an int
Word(u, lo, hi) == u[lo] + u[hi] * 256

Wrap16(x) == ((x + 32768) % 65536) - 32768

\* What an int holds after the assignment.  int has 16 bits on the AVR boards
\* and 32 elsewhere; a signed overflow is undefined, and the build leaves the
\* wrapped value or, with a wider int, the exact one.
IntResults(x) == IF x >= -32768 /\ x <= 32767 THEN {x} ELSE {Wrap16(x), x}

InRangeNoCeiling(d) == d > 0

\* dist > 0 && dist < 1200
InRange(d) == d > 0 /\ d < Ceiling

\* raw / 32.8, in RateUnit
GyroScale(raw) == raw * 5

IntegrateWrapped(angle, rate, ms) ==
    IF angle + rate * ms < 0 THEN angle + rate * ms + 360 * DegUnit
    ELSE IF angle + rate * ms >= 360 * DegUnit
      THEN angle + rate * ms - 360 * DegUnit
    ELSE angle + rate * ms

\* angle + rate * elapsedTime, with elapsedTime = milliseconds / 1000
Integrate(angle, rate, ms) == angle + rate * ms

\* The checksum byte a rangefinder appends to the last eight bytes it sent.
Closing ==
    IF Len(stream) >= 8
      THEN {(stream[Len(stream) - 7] + stream[Len(stream) - 6]
             + stream[Len(stream) - 5] + stream[Len(stream) - 4]
             + stream[Len(stream) - 3] + stream[Len(stream) - 2]
             + stream[Len(stream) - 1] + stream[Len(stream)]) % 256}
      ELSE {}

\* What the line may deliver next when anything may be on it.
LineBytes == ByteVals \cup Closing

\* What the line delivers next when it carries one stray byte and then one
\* well-formed frame.
FramedBytes ==
    IF Len(stream) = 0 THEN ByteVals
    ELSE IF Len(stream) <= 2 THEN {HEADER}
    ELSE IF Len(stream) <= 8 THEN PayloadVals
    ELSE Closing

\* ---------------------------------------------------------------- initial
Init ==
    /\ stream = << >>
    /\ taken = 0
    /\ pc = "setup"
    /\ i = 0
    /\ uart = [k \in 0..8 |-> 0]
    /\ check = 0
    /\ dist = 0
    /\ strength = 0
    /\ out = << >>
    /\ accepted = << >>
    /\ frameReady = FALSE
    /\ start = 0
    /\ exit = "none"
    /\ clock = 0
    /\ currentTime = 0
    /\ previousTime = 0
    /\ elapsedTime = 0
    /\ GyroZ = 0
    /\ GyroErrorZ = 0
    /\ gyroAngleZ = 0
    /\ yaw = 0
    /\ setupEnd = 0

\* ---------------------------------------------------------------- actions
\* setup(): opens the serial ports, configures the MPU6050 and runs
\* calculate_IMU_error, which averages CalibN gyro words read at rest.
SetupWith(cals, durs) ==
    /\ pc = "setup"
    /\ \E cal \in cals, d \in durs :
        /\ GyroErrorZ' = (CalibN * GyroScale(cal)) \div CalibN
        /\ GyroZ' = cal * RateUnit
        /\ clock' = clock + d
        /\ setupEnd' = clock + d
    /\ pc' = "loop"
    /\ UNCHANGED <<lidarVars, exit, currentTime, previousTime, elapsedTime,
                   gyroAngleZ, yaw>>

\* The rangefinder's next byte lands in the receive buffer (an interrupt,
\* at any point of the sketch once Serial1.begin has run).
Arrive ==
    /\ pc # "setup"
    /\ Len(stream) < MaxStream
    /\ \E b \in LineBytes : stream' = Append(stream, b)
    /\ UNCHANGED <<taken, pc, i, uart, check, dist, strength, out, accepted,
                   frameReady, start, exit, clock, mpuVars, setupEnd>>

\* The same interrupt on a line that carries one stray byte followed by one
\* well-formed frame.
ArriveFramed ==
    /\ pc # "setup"
    /\ Len(stream) < 1 + FrameLen
    /\ \E b \in FramedBytes : stream' = Append(stream, b)
    /\ UNCHANGED <<taken, pc, i, uart, check, dist, strength, out, accepted,
                   frameReady, start, exit, clock, mpuVars, setupEnd>>

\* Time passes.
Tick ==
    /\ pc # "setup"
    /\ \E d \in ClockSteps :
        /\ clock + d <= MaxClock
        /\ clock' = clock + d
    /\ UNCHANGED <<lidarVars, pc, exit, mpuVars, setupEnd>>

\* The gyro half of readMPU6050 for the raw word gz.
ReadMPU6050(gz) ==
    /\ previousTime' = currentTime
    /\ currentTime' = clock
    /\ elapsedTime' = clock - currentTime
    /\ GyroZ' = GyroScale(gz) - GyroErrorZ
    /\ gyroAngleZ' = Integrate(gyroAngleZ, GyroScale(gz) - GyroErrorZ,
                               clock - currentTime)
    /\ yaw' = Integrate(gyroAngleZ, GyroScale(gz) - GyroErrorZ,
                        clock - currentTime)
    /\ UNCHANGED GyroErrorZ

\* loop(), up to the test of Serial1.available().
LoopHeadWith(samples) ==
    /\ pc = "loop"
    /\ \E gz \in samples : ReadMPU6050(gz)
    /\ frameReady' = (SerialAvailable >= FrameLen)
    /\ start' = taken
    /\ IF SerialAvailable > 0
         THEN pc' = "h0" /\ exit' = exit
         ELSE pc' = "loop" /\ exit' = "empty"
    /\ UNCHANGED <<stream, taken, i, uart, check, dist, strength, out,
                   accepted, clock, setupEnd>>

\* if (Serial1.read() == HEADER) uart[0] = HEADER;
ReadHeader0 ==
    /\ pc = "h0"
    /\ taken' = SerialReadTaken
    /\ IF SerialReadValue = HEADER
         THEN /\ uart' = [uart EXCEPT ![0] = HEADER]
              /\ pc' = "h1"
              /\ exit' = exit
         ELSE /\ uart' = uart
              /\ pc' = "loop"
              /\ exit' = "nohdr0"
    /\ UNCHANGED <<stream, i, check, dist, strength, out, accepted,
                   frameReady, start, clock, mpuVars, setupEnd>>

\* if (Serial1.read() == HEADER) uart[1] = HEADER; and the for loop starts
ReadHeader1 ==
    /\ pc = "h1"
    /\ taken' = SerialReadTaken
    /\ IF SerialReadValue = HEADER
         THEN /\ uart' = [uart EXCEPT ![1] = HEADER]
              /\ i' = 2
              /\ pc' = "payload"
              /\ exit' = exit
         ELSE /\ uart' = uart
              /\ i' = i
              /\ pc' = "loop"
              /\ exit' = "nohdr1"
    /\ UNCHANGED <<stream, check, dist, strength, out, accepted,
                   frameReady, start, clock, mpuVars, setupEnd>>

\* uart[i] = Serial1.read(); i++
ReadPayload ==
    /\ pc = "payload"
    /\ taken' = SerialReadTaken
    /\ uart' = [uart EXCEPT ![i] = SerialReadValue]
    /\ i' = i + 1
    /\ pc' = IF i + 1 < FrameLen THEN "payload" ELSE "check"
    /\ UNCHANGED <<stream, check, dist, strength, out, accepted,
                   frameReady, start, exit, clock, mpuVars, setupEnd>>

\* The checksum test, the decoding and the print.
Validate ==
    /\ pc = "check"
    /\ check' = CheckSum(uart)
    /\ IF ChecksumOk(uart)
         THEN /\ dist' \in IntResults(Word(uart, 2, 3))
              /\ strength' \in IntResults(Word(uart, 4, 5))
              /\ accepted' = Append(accepted, dist')
              /\ IF InRange(dist')
                   THEN /\ out' = Append(out, [distance |-> dist', yaw |-> yaw])
                        /\ exit' = "emitted"
                   ELSE /\ out' = out
                        /\ exit' = "dropped"
         ELSE /\ UNCHANGED <<dist, strength, accepted, out>>
              /\ exit' = "badsum"
    /\ pc' = "loop"
    /\ UNCHANGED <<stream, taken, i, uart, frameReady, start, clock, mpuVars,
                   setupEnd>>

\* ---------------------------------------------------------- specifications
SetupAtRest == SetupWith(CalibAtRest, StartupShort)

LoopHeadAtRest == LoopHeadWith(GyroAtRest)

SetupAny == SetupWith(CalibSamples, StartupMillis)

LoopHeadAny == LoopHeadWith(GyroSamples)

\* The rangefinder pipeline: bytes arrive at any moment; the gyro is at rest
\* and the clock is the one setup() left.
Next ==
    \/ SetupAtRest
    \/ Arrive
    \/ LoopHeadAtRest
    \/ ReadHeader0
    \/ ReadHeader1
    \/ ReadPayload
    \/ Validate

Spec == Init /\ [][Next]_vars

\* The orientation pipeline: the clock runs and the gyro turns; the
\* rangefinder line is silent.
NextIMU ==
    \/ SetupAny
    \/ Tick
    \/ LoopHeadAny

SpecIMU == Init /\ [][NextIMU]_vars

\* The rangefinder pipeline on a line that carries one stray byte and then
\* one well-formed frame, delivered at any pace.
NextFramed ==
    \/ SetupAtRest
    \/ ArriveFramed
    \/ LoopHeadAtRest
    \/ ReadHeader0
    \/ ReadHeader1
    \/ ReadPayload
    \/ Validate

SpecFramed == Init /\ [][NextFramed]_vars

\* ------------------------------------------------------------------ claims
\* The nine bytes of the stream after its first s bytes.
FrameAt(s) == [k \in 0..8 |-> stream[s + 1 + k]]

\* A frame as the protocol defines a valid one.
ValidFrame(f) ==
    /\ f[0] = 89
    /\ f[1] = 89
    /\ f[8] = (f[0] + f[1] + f[2] + f[3] + f[4] + f[5] + f[6] + f[7]) % 256

\* The last iteration of loop() passed the checksum test.
Accepting == exit \in {"emitted", "dropped"}

\* The last iteration of loop() read at least one byte and accepted nothing.
Rejecting == exit \in {"nohdr0", "nohdr1", "badsum"}

\* The line has delivered everything and the sketch has read it all.
Drained == pc = "loop" /\ taken = Len(stream)

\* C1: when the nine bytes of a frame were all buffered as the iteration
\* tested available(), the iteration passes the checksum test exactly when
\* the frame has two header bytes 0x59 and its ninth byte is the low byte of
\* the sum of the first eight.
C1_AcceptIffValid ==
    (pc = "loop" /\ frameReady /\ exit # "none")
        => (Accepting <=> ValidFrame(FrameAt(start)))

C1_Witness == pc = "loop" /\ frameReady /\ exit = "emitted"

C3_EmitsOnlyWholeFrames ==
    (pc = "loop" /\ exit = "emitted")
        => /\ \A k \in 0..8 : uart[k] # -1
           /\ taken = start + 9
           /\ out[Len(out)].distance = stream[start + 3] + stream[start + 4] * 256

\* C4: once one stray byte and a valid frame have arrived and been read,
\* exactly one packet has been accepted.
C4_ResyncAcceptsOnce ==
    (Len(stream) = 10 /\ ValidFrame(FrameAt(1)) /\ Drained)
        => Len(accepted) = 1

\* C5: every Serial1.read() happens with at least one byte buffered.
C5_ReadOnlyWhenAvailable ==
    [][(pc \in {"h0", "h1", "payload"} /\ (pc' # pc \/ i' # i))
          => SerialAvailable > 0]_vars

C8_RejectTakesOneByte == (pc = "loop" /\ Rejecting) => taken = start + 1

\* C9: once the nine bytes of a valid frame have arrived, at whatever pace,
\* and been read, the frame has been accepted exactly once.
C9_SplitFrameAccepted ==
    (Len(stream) = 9 /\ ValidFrame(FrameAt(0)) /\ Drained)
        => Len(accepted) = 1

\* C10: the elapsed time of an update never reaches back before the end of
\* setup(): the time spent starting up is not integrated.
C10_StartupNotIntegrated ==
    exit # "none" => elapsedTime <= currentTime - setupEnd
====
